---- MODULE Spec2Model ----
(***************************************************************************)
(* Model of the question-generation pipeline of lib/openai.ts              *)
(* (src/unnamed/part_012): OpenAIService.generateQuestions, its validator  *)
(* validateQuestions and the answer de-biaser shuffleAnswerPosition, the   *)
(* fallback generator generateFallbackQuestions, the cost estimator        *)
(* estimateTokenCost and the batch variant generateBatchQuestions, and of  *)
(* the generate endpoint that calls them (src/unnamed/part_008).           *)
(*                                                                         *)
(* JavaScript values are encoded as records with a fixed set of fields so  *)
(* that values of different JavaScript types stay comparable:              *)
(*   t : the kind of value ("undefined", "null", "string", "number",       *)
(*       "object"),                                                        *)
(*   s : the text of a string, a sequence of pieces, each piece a single   *)
(*       white-space character or a run of other characters,               *)
(*   n : the integer part (floor) of a number,                             *)
(*   f : TRUE when the number has a fractional part (1.5 is n=1, f=TRUE).  *)
(***************************************************************************)
EXTENDS Integers, Sequences, FiniteSets, TLC

VARIABLES
    apiKey,      \* process.env.OPENAI_API_KEY
    pc,          \* position of the generateQuestions call
    requests,    \* requests sent to the completion service by the current call
    completion,  \* what the completion service answered to the current call
    outcome,     \* how the current call ended: returned value or thrown error
    validated,      \* the list validateQuestions maps shuffleAnswerPosition over
    randomCalls,    \* per question, the Math.random() calls of its shuffle
    debiased,       \* the list the map returned
    principles,     \* the argument of generateFallbackQuestions
    fallback,       \* how generateFallbackQuestions ended
    costInput,      \* the arguments of estimateTokenCost
    costEstimate,   \* what estimateTokenCost returned
    principleGroups, \* the argument of generateBatchQuestions
    invocations,    \* the generateQuestions calls in flight or ended, in call order
    batchPc,        \* position of the generateBatchQuestions call
    settleOrder,    \* the calls in the order in which their promises settled
    batchOutcome,   \* how generateBatchQuestions ended
    warned,         \* what generateBatchQuestions gave to console.warn
    refRuns,        \* per question, the heap before and after its shuffle
    request,        \* the request the generate handler received
    handlerPc,      \* position of the generate handler
    generateArgs,   \* the arguments the handler gave to generateQuestions
    generated,      \* how the handler's generateQuestions call ended
    fallbackArgs,   \* the arguments the handler gave to generateFallbackQuestions
    persisted,      \* the lists the handler gave to DatabaseService.createQuestions
    response        \* the response the handler sent

genVars == <<apiKey, pc, requests, completion, outcome>>
shuffleVars == <<validated, randomCalls, debiased>>
fallbackVars == <<principles, fallback>>
costVars == <<costInput, costEstimate>>
batchVars ==
    <<principleGroups, invocations, batchPc, settleOrder, batchOutcome, warned>>
heapVars == <<refRuns>>
handlerVars ==
    <<request, handlerPc, generateArgs, generated, fallbackArgs, persisted, response>>
\* the components added to the pipeline's own: the batch variant, the shuffle
\* on references and the generate endpoint
laterVars == <<batchVars, heapVars, handlerVars>>

vars == <<genVars, shuffleVars, fallbackVars, costVars, laterVars>>

----------------------------------------------------------------------------
(* Bounds of the model *)

\* longest `questions` array the completion carries, and longest list of
\* valid questions mapped over
MaxCandidates == 2
\* longest list of principles given to generateFallbackQuestions
MaxPrinciples == 2
\* largest principles.length and questionsPerPrinciple given to estimateTokenCost
MaxCostPrinciples == 8
MaxPerPrinciple == 10
\* Math.random() is drawn from { k / RandomSteps : k \in 0..RandomSteps-1 }
RandomSteps == 4

----------------------------------------------------------------------------
(* JavaScript values *)

Undefined == [t |-> "undefined", s |-> <<>>, n |-> 0, f |-> FALSE]
Null == [t |-> "null", s |-> <<>>, n |-> 0, f |-> FALSE]
Str(chars) == [t |-> "string", s |-> chars, n |-> 0, f |-> FALSE]
Num(i) == [t |-> "number", s |-> <<>>, n |-> i, f |-> FALSE]
\* the number i + 0.5
Frac(i) == [t |-> "number", s |-> <<>>, n |-> i, f |-> TRUE]
PlainObject == [t |-> "object", s |-> <<>>, n |-> 0, f |-> FALSE]

\* typeof v
TypeOf(v) == IF v.t = "null" THEN "object" ELSE v.t

\* !v
Falsy(v) ==
    \/ v.t \in {"undefined", "null"}
    \/ v.t = "string" /\ v.s = <<>>
    \/ v.t = "number" /\ v.n = 0 /\ ~v.f

\* v < 0 and v > 3 for a number v
LessThanZero(v) == v.n < 0
GreaterThanThree(v) == v.n > 3 \/ (v.n = 3 /\ v.f)

WhiteSpace == {" ", "\n"}

RECURSIVE TrimStart(_)
TrimStart(chars) ==
    IF chars # <<>> /\ Head(chars) \in WhiteSpace
    THEN TrimStart(Tail(chars))
    ELSE chars

RECURSIVE TrimEnd(_)
TrimEnd(chars) ==
    IF chars # <<>> /\ chars[Len(chars)] \in WhiteSpace
    THEN TrimEnd(SubSeq(chars, 1, Len(chars) - 1))
    ELSE chars

\* String.prototype.trim
Trim(chars) == TrimEnd(TrimStart(chars))

(* A value that may be an array: isArray tells whether it is one; items are *)
(* its indexed elements, extra its non-index properties (key, value) in the *)
(* order they were set; other is the value itself when it is no array.      *)
Array(items) == [isArray |-> TRUE, items |-> items, extra |-> <<>>, other |-> PlainObject]
NotArray(v) == [isArray |-> FALSE, items |-> <<>>, extra |-> <<>>, other |-> v]

FalsyValue(a) == ~a.isArray /\ Falsy(a.other)

IsIndex(a, k) == k.t = "number" /\ ~k.f /\ k.n >= 0 /\ k.n < Len(a.items)

\* a[k]
ArrayGet(a, k) ==
    IF IsIndex(a, k) THEN a.items[k.n + 1]
    ELSE LET hits == {i \in 1..Len(a.extra) : a.extra[i].key = k}
         IN IF hits = {} THEN Undefined
            ELSE a.extra[CHOOSE i \in hits : \A j \in hits : j <= i].value

\* a[k] = v
ArraySet(a, k, v) ==
    IF IsIndex(a, k) THEN [a EXCEPT !.items[k.n + 1] = v]
    ELSE [a EXCEPT !.extra = Append(@, [key |-> k, value |-> v])]

\* [...a]
ArraySpread(a) == Array(a.items)

----------------------------------------------------------------------------
(* Errors: site is the place that created the error value, isError tells    *)
(* whether it is an instance of Error.                                      *)

NoError == [site |-> "none", isError |-> FALSE, message |-> ""]
MkError(site, message) == [site |-> site, isError |-> TRUE, message |-> message]

ConfigError == MkError("generateQuestions:49", "OpenAI API key is not configured")
EmptyContentError == MkError("generateQuestions:74", "No content received from OpenAI")
FormatError == MkError("generateQuestions:80", "Invalid response format from OpenAI")
SyntaxError == MkError("JSON.parse", "Unexpected token in JSON")
TypeError == MkError("runtime", "Cannot read properties of null")

\* what the completion service rejects with
TransportErrors ==
    { MkError("service", "401 Incorrect API key provided"),
      MkError("service", "429 Rate limit reached"),
      [site |-> "service", isError |-> FALSE, message |-> "aborted"] }

----------------------------------------------------------------------------
(* Candidate questions: the elements of the parsed `questions` array.  t is *)
(* the kind of the element itself; the five fields are its properties when  *)
(* it is an object.                                                         *)

Candidate(q, o, c, p, e) ==
    [t |-> "object", question |-> q, options |-> o, correctAnswer |-> c,
     principleId |-> p, explanation |-> e]

\* an element that is not an object: null, a number, a string
Primitive(kind) ==
    [t |-> kind, question |-> Undefined, options |-> NotArray(Undefined),
     correctAnswer |-> Undefined, principleId |-> Undefined,
     explanation |-> Undefined]

\* reading a property of null throws a TypeError
PropertyAccessThrows(x) == x.t \in {"null", "undefined"}

\* `!option || typeof option !== 'string' || option.trim().length === 0`
BadOption(option) ==
    \/ Falsy(option)
    \/ TypeOf(option) # "string"
    \/ Len(Trim(option.s)) = 0

\* the callback of questions.filter in validateQuestions
FilterCallback(question) ==
    IF Falsy(question.question) \/ TypeOf(question.question) # "string"
    THEN FALSE
    ELSE IF ~question.options.isArray \/ Len(question.options.items) # 4
    THEN FALSE
    ELSE IF \/ TypeOf(question.correctAnswer) # "number"
            \/ LessThanZero(question.correctAnswer)
            \/ GreaterThanThree(question.correctAnswer)
    THEN FALSE
    ELSE IF Falsy(question.principleId) \/ TypeOf(question.principleId) # "string"
    THEN FALSE
    ELSE IF \E i \in 1..Len(question.options.items) :
                BadOption(question.options.items[i])
    THEN FALSE
    ELSE TRUE

RECURSIVE FilterFrom(_, _)
\* questions.filter(callback), for elements on which the callback does not throw
FilterFrom(questions, i) ==
    IF i > Len(questions) THEN <<>>
    ELSE IF FilterCallback(questions[i])
         THEN <<questions[i]>> \o FilterFrom(questions, i + 1)
         ELSE FilterFrom(questions, i + 1)

\* Math.random() > 0.3 for the draw r / RandomSteps
AboveThreshold(r) == 10 * r > 3 * RandomSteps
\* Math.floor(Math.random() * 4) for the draw r / RandomSteps
FloorTimesFour(r) == (4 * r) \div RandomSteps

Draws == 0..(RandomSteps - 1)

\* a shuffle that builds its result without the spread of the question
shuffleAnswerPositionNoSpread(question, r1, r2) ==
    IF question.correctAnswer # Num(0) /\ AboveThreshold(r1)
    THEN question
    ELSE LET newCorrectIndex == Num(FloorTimesFour(r2))
         IN IF newCorrectIndex = question.correctAnswer
            THEN question
            ELSE LET newOptions == ArraySpread(question.options)
                     correctOption == ArrayGet(newOptions, question.correctAnswer)
                     targetOption == ArrayGet(newOptions, newCorrectIndex)
                     swapped == ArraySet(ArraySet(newOptions, question.correctAnswer, targetOption),
                                         newCorrectIndex, correctOption)
                 IN [question EXCEPT !.options = swapped,
                                     !.correctAnswer = newCorrectIndex,
                                     !.explanation = Undefined]

\* a shuffle that may keep the question as it is whatever its correctAnswer
shuffleAnswerPositionSkipAtZero(question, r1, r2) ==
    IF AboveThreshold(r1)
    THEN question
    ELSE LET newCorrectIndex == Num(FloorTimesFour(r2))
         IN IF newCorrectIndex = question.correctAnswer
            THEN question
            ELSE LET newOptions == ArraySpread(question.options)
                     correctOption == ArrayGet(newOptions, question.correctAnswer)
                     targetOption == ArrayGet(newOptions, newCorrectIndex)
                     swapped == ArraySet(ArraySet(newOptions, question.correctAnswer, targetOption),
                                         newCorrectIndex, correctOption)
                 IN [question EXCEPT !.options = swapped,
                                     !.correctAnswer = newCorrectIndex]

\* shuffleAnswerPosition with the two Math.random() draws r1 and r2
shuffleAnswerPosition(question, r1, r2) ==
    IF question.correctAnswer # Num(0) /\ AboveThreshold(r1)
    THEN question
    ELSE LET newCorrectIndex == Num(FloorTimesFour(r2))
         IN IF newCorrectIndex = question.correctAnswer
            THEN question
            ELSE LET newOptions == ArraySpread(question.options)
                     correctOption == ArrayGet(newOptions, question.correctAnswer)
                     targetOption == ArrayGet(newOptions, newCorrectIndex)
                     swapped == ArraySet(ArraySet(newOptions, question.correctAnswer, targetOption),
                                         newCorrectIndex, correctOption)
                 IN [question EXCEPT !.options = swapped,
                                     !.correctAnswer = newCorrectIndex]

\* every result shuffleAnswerPosition can give for a question
ShuffleResults(question) ==
    { shuffleAnswerPosition(question, r1, r2) : r1 \in Draws, r2 \in Draws }

RECURSIVE MapShuffle(_)
\* validQuestions.map(shuffleAnswerPosition): every list the draws can give
MapShuffle(validQuestions) ==
    IF validQuestions = <<>> THEN { <<>> }
    ELSE { <<h>> \o rest : h \in ShuffleResults(Head(validQuestions)),
                           rest \in MapShuffle(Tail(validQuestions)) }

Returned(value) == [kind |-> "return", value |-> value, raised |-> NoError, error |-> NoError]
Thrown(raised, error) == [kind |-> "throw", value |-> <<>>, raised |-> raised, error |-> error]
Pending == [kind |-> "none", value |-> <<>>, raised |-> NoError, error |-> NoError]

\* validateQuestions: the results it can return, or the error it throws
validateQuestions(questions) ==
    IF \E i \in 1..Len(questions) : PropertyAccessThrows(questions[i])
    THEN { Thrown(TypeError, TypeError) }
    ELSE { Returned(list) : list \in MapShuffle(FilterFrom(questions, 1)) }

----------------------------------------------------------------------------
(* The completion's text.  JSON.parse is a library function: a text is      *)
(* described by what JSON.parse does with it, which is to throw a           *)
(* SyntaxError (parses = FALSE) or to return a JSON value.                  *)

\* the JSON value at the top of a parsed text; questions is its property
JsonValue(kind, questions) == [t |-> kind, questions |-> questions]

NoJson == JsonValue("undefined", NotArray(Undefined))

\* message.content: undefined, null or a string
NoContent(kind) == [t |-> kind, empty |-> FALSE, parses |-> FALSE, value |-> NoJson]
EmptyText == [t |-> "string", empty |-> TRUE, parses |-> FALSE, value |-> NoJson]
BrokenText == [t |-> "string", empty |-> FALSE, parses |-> FALSE, value |-> NoJson]
JsonText(value) == [t |-> "string", empty |-> FALSE, parses |-> TRUE, value |-> value]

\* !content
FalsyContent(content) == content.t \in {"undefined", "null"} \/ content.empty

\* JSON.parse(content)
JSONparse(content) ==
    IF content.parses
    THEN [ok |-> TRUE, value |-> content.value]
    ELSE [ok |-> FALSE, value |-> NoJson]

\* parsedResponse.questions, for a parsedResponse that is not null
QuestionsOf(parsedResponse) ==
    IF parsedResponse.t = "object" THEN parsedResponse.questions
    ELSE NotArray(Undefined)

(* The answer of the completion service: a rejection with a reason, or a    *)
(* completion object with its choices; a choice has a message or none.      *)
NoCompletion == [status |-> "none", reason |-> NoError, choices |-> <<>>]
Rejected(reason) == [status |-> "rejected", reason |-> reason, choices |-> <<>>]
Resolved(choices) == [status |-> "resolved", reason |-> NoError, choices |-> choices]
Choice(content) == [hasMessage |-> TRUE, content |-> content]
ChoiceWithoutMessage == [hasMessage |-> FALSE, content |-> NoContent("undefined")]

\* completion.choices[0]?.message?.content
ContentOf(c) ==
    IF c.choices = <<>> THEN NoContent("undefined")
    ELSE IF ~c.choices[1].hasMessage THEN NoContent("undefined")
    ELSE c.choices[1].content

----------------------------------------------------------------------------
(* generateQuestions *)

\* a catch block that rethrows what it caught
WrapErrorRethrow(error) == error

\* the catch block of generateQuestions: a new Error around the message
WrapError(error) ==
    MkError("generateQuestions:88",
            "Failed to generate questions: "
                \o (IF error.isError THEN error.message ELSE "Unknown error"))

\* a format check that takes a missing `questions` array for an empty one
AfterParseLenient(parsedResponse) ==
    IF PropertyAccessThrows(parsedResponse)
    THEN { Thrown(TypeError, TypeError) }
    ELSE LET questions == QuestionsOf(parsedResponse)
         IN IF FalsyValue(questions) \/ ~questions.isArray
            THEN { Returned(<<>>) }
            ELSE validateQuestions(questions.items)

\* lines 79-84: the format check and the validation of a parsed response
AfterParse(parsedResponse) ==
    IF PropertyAccessThrows(parsedResponse)
    THEN { Thrown(TypeError, TypeError) }
    ELSE LET questions == QuestionsOf(parsedResponse)
         IN IF FalsyValue(questions) \/ ~questions.isArray
            THEN { Thrown(FormatError, FormatError) }
            ELSE validateQuestions(questions.items)

\* a try block that takes missing content for an empty `questions` array
AfterCompletionNoContentCheck(c) ==
    LET content == ContentOf(c)
    IN IF FalsyContent(content)
       THEN { Returned(<<>>) }
       ELSE LET parsed == JSONparse(content)
            IN IF ~parsed.ok
               THEN { Thrown(SyntaxError, SyntaxError) }
               ELSE AfterParse(parsed.value)

\* lines 72-84: the body of the try block after the awaited completion
AfterCompletion(c) ==
    LET content == ContentOf(c)
    IN IF FalsyContent(content)
       THEN { Thrown(EmptyContentError, EmptyContentError) }
       ELSE LET parsed == JSONparse(content)
            IN IF ~parsed.ok
               THEN { Thrown(SyntaxError, SyntaxError) }
               ELSE AfterParse(parsed.value)

\* lines 86-89: what leaves the try block reaches the caller through the catch
Catch(o) == IF o.kind = "throw" THEN Thrown(o.raised, WrapError(o.raised)) ELSE o

PcOf(o) == IF o.kind = "throw" THEN "thrown" ELSE "returned"

----------------------------------------------------------------------------
(* The inputs the model draws from *)

Q1 == Str(<<"Q", "1">>)
Q2 == Str(<<"Q", "2">>)
P1 == Str(<<"p", "1">>)
OptA == Str(<<"a">>)
OptB == Str(<<"b">>)
OptC == Str(<<"c">>)
OptD == Str(<<"d">>)
Expl == Str(<<"e">>)
ABCD == Array(<<OptA, OptB, OptC, OptD>>)

\* candidates that pass every check of the filter callback
PassingCandidates ==
    { Candidate(Q1, ABCD, Num(0), P1, Expl),
      Candidate(Q1, ABCD, Frac(1), P1, Undefined),
      Candidate(Q2, ABCD, Num(3), P1, Undefined),
      Candidate(Q1, Array(<<OptA, OptA, OptC, OptD>>), Num(1), P1, Expl),
      Candidate(Q2, Array(<<Str(<<" ", "a">>), OptB, OptC, Str(<<"d", "\n">>)>>),
                Num(2), P1, Undefined) }

\* candidates with one malformed field
FailingCandidates ==
    { Candidate(q, ABCD, Num(1), P1, Expl) :
        q \in {Undefined, Str(<<>>), Num(7)} }
    \cup
    { Candidate(Q1, o, Num(1), P1, Expl) :
        o \in { NotArray(Undefined), NotArray(Str(<<"a", "b", "c", "d">>)),
                Array(<<OptA, OptB>>),
                Array(<<OptA, OptB, OptC, OptD, OptA>>),
                Array(<<OptA, Str(<<>>), OptC, OptD>>),
                Array(<<OptA, OptB, Str(<<" ", "\n">>), OptD>>),
                Array(<<OptA, OptB, OptC, Null>>),
                Array(<<Num(5), OptB, OptC, OptD>>) } }
    \cup
    { Candidate(Q1, ABCD, c, P1, Expl) :
        c \in {Undefined, Str(<<"1">>), Num(-1), Frac(-1), Num(4), Frac(3)} }
    \cup
    { Candidate(Q1, ABCD, Num(1), p, Expl) :
        p \in {Undefined, Str(<<>>), Num(7)} }

\* elements of the array that are no objects
PrimitiveCandidates == { Primitive("null"), Primitive("number"), Primitive("string") }

Candidates == PassingCandidates \cup FailingCandidates \cup PrimitiveCandidates

\* the `questions` arrays: every list of at most MaxCandidates candidates
QuestionArrays ==
    UNION { [1..len -> Candidates] : len \in 0..MaxCandidates }

\* the JSON values a completion text can parse to
ParsedResponses ==
    { JsonValue(kind, NotArray(Undefined)) :
        kind \in {"null", "number", "string", "array", "object"} }
    \cup
    { JsonValue("object", NotArray(v)) :
        v \in {Null, Num(0), Str(<<>>), Str(<<"x">>), PlainObject} }
    \cup
    { JsonValue("object", Array(list)) : list \in QuestionArrays }

\* the completions the service can resolve with
Completions ==
    { Resolved(<<>>), Resolved(<<ChoiceWithoutMessage>>) }
    \cup
    { Resolved(<<Choice(content)>>) :
        content \in {NoContent("undefined"), NoContent("null"), EmptyText, BrokenText} }
    \cup
    { Resolved(<<Choice(JsonText(value))>>) : value \in ParsedResponses }

\* the values of the environment variable OPENAI_API_KEY
ApiKeys == { Undefined, Str(<<>>), Str(<<"s", "k">>) }

\* estimateTokenCost has not been called
NoCostInput == [called |-> FALSE, length |-> 0, questionsPerPrinciple |-> Undefined]
NoCostEstimate ==
    [estimatedPromptTokens |-> 0, estimatedCompletionTokens |-> 0,
     estimatedCostHundredths |-> 0]

\* the generate handler has received no request
NoIds == [t |-> "undefined", ids |-> <<>>]
NoRequest ==
    [method |-> "none", principleIds |-> NoIds,
     questionsPerPrinciple |-> Undefined, difficulty |-> Undefined]
\* the handler has not called generateQuestions
NoGenerateArgs ==
    [called |-> FALSE, principles |-> <<>>,
     questionsPerPrinciple |-> Undefined, difficulty |-> Undefined]
\* the handler has sent no response
NoResponse ==
    [status |-> 0, success |-> FALSE, code |-> "", totalGenerated |-> Undefined]

----------------------------------------------------------------------------
(* The state machine: one call of generateQuestions after the other *)

Init ==
    /\ apiKey \in ApiKeys
    /\ pc = "idle"
    /\ requests = 0
    /\ completion = NoCompletion
    /\ outcome = Pending
    /\ validated = <<>>
    /\ randomCalls = <<>>
    /\ debiased = <<>>
    /\ principles = <<>>
    /\ fallback = Pending
    /\ costInput = NoCostInput
    /\ costEstimate = NoCostEstimate
    /\ principleGroups = <<>>
    /\ invocations = <<>>
    /\ batchPc = "idle"
    /\ settleOrder = <<>>
    /\ batchOutcome = Pending
    /\ warned = <<>>
    /\ refRuns = <<>>
    /\ request = NoRequest
    /\ handlerPc = "idle"
    /\ generateArgs = NoGenerateArgs
    /\ generated = Pending
    /\ fallbackArgs = <<>>
    /\ persisted = <<>>
    /\ response = NoResponse

\* a call that sends the request without the credential check
generateQuestionsCallUnchecked ==
    /\ pc \in {"idle", "returned", "thrown"}
    /\ completion' = NoCompletion
    /\ requests' = 1
    /\ outcome' = Pending
    /\ pc' = "awaiting"
    /\ UNCHANGED <<apiKey, shuffleVars, fallbackVars, costVars, laterVars>>

\* lines 48-70: the credential check, then the request to the service
generateQuestionsCall ==
    /\ pc \in {"idle", "returned", "thrown"}
    /\ completion' = NoCompletion
    /\ IF Falsy(apiKey)
       THEN /\ requests' = 0
            /\ outcome' = Thrown(ConfigError, ConfigError)
            /\ pc' = "thrown"
       ELSE /\ requests' = 1
            /\ outcome' = Pending
            /\ pc' = "awaiting"
    /\ UNCHANGED <<apiKey, shuffleVars, fallbackVars, costVars, laterVars>>

\* a rejection answered by sending the request once more
ServiceRejectsRetry ==
    /\ pc = "awaiting"
    /\ requests < 3
    /\ \E reason \in TransportErrors :
          completion' = Rejected(reason)
    /\ requests' = requests + 1
    /\ UNCHANGED <<apiKey, pc, outcome, shuffleVars, fallbackVars, costVars, laterVars>>

\* the awaited request rejects: the catch block wraps the reason
ServiceRejects ==
    /\ pc = "awaiting"
    /\ \E reason \in TransportErrors :
          /\ completion' = Rejected(reason)
          /\ outcome' = Catch(Thrown(reason, reason))
    /\ pc' = "thrown"
    /\ UNCHANGED <<apiKey, requests, shuffleVars, fallbackVars, costVars, laterVars>>

\* the awaited request resolves: lines 72-89 run to the return or the throw
ServiceResolves ==
    /\ pc = "awaiting"
    /\ \E c \in Completions :
          /\ completion' = c
          /\ \E o \in AfterCompletion(c) :
                /\ outcome' = Catch(o)
                /\ pc' = PcOf(o)
    /\ UNCHANGED <<apiKey, requests, shuffleVars, fallbackVars, costVars, laterVars>>

Next ==
    \/ generateQuestionsCall
    \/ ServiceRejects
    \/ ServiceResolves

Spec == Init /\ [][Next]_vars

----------------------------------------------------------------------------
(* Vocabulary of the properties *)

CallReturned == pc = "returned"
CallThrew == pc = "thrown"
CallEnded == CallReturned \/ CallThrew

\* the questions the call returned
ReturnedQuestions == { outcome.value[i] : i \in 1..Len(outcome.value) }

\* the text of the completion, when the service resolved with one
ReceivedContent == ContentOf(completion)
ReceivedText == completion.status = "resolved" /\ ReceivedContent.t = "string"

\* the completion parsed to an object whose `questions` property is an array
ReceivedQuestionsArray ==
    /\ ReceivedText
    /\ ReceivedContent.parses
    /\ ReceivedContent.value.t = "object"
    /\ ReceivedContent.value.questions.isArray

\* that array
ReceivedCandidates == ReceivedContent.value.questions.items

IsNonEmptyString(v) == v.t = "string" /\ v.s # <<>>
IsNonBlankString(v) == v.t = "string" /\ Trim(v.s) # <<>>
IsIntegerInRange(v) == v.t = "number" /\ ~v.f /\ v.n \in 0..3
IsNumberInRange(v) == v.t = "number" /\ v.n >= 0 /\ (v.n < 3 \/ (v.n = 3 /\ ~v.f))

\* the five per-candidate checks of the specification
PassesChecks(c) ==
    /\ c.t = "object"
    /\ IsNonEmptyString(c.question)
    /\ c.options.isArray /\ Len(c.options.items) = 4
    /\ \A j \in 1..Len(c.options.items) : IsNonBlankString(c.options.items[j])
    /\ IsNumberInRange(c.correctAnswer)
    /\ IsNonEmptyString(c.principleId)

----------------------------------------------------------------------------
(* C1: every question generateQuestions returns has exactly four options,   *)
(* each a string that is non-empty after trimming, and a correctAnswer      *)
(* between 0 and 3.                                                         *)
C1_StructuralInvariant ==
    CallReturned =>
        \A q \in ReturnedQuestions :
            /\ q.options.isArray
            /\ Len(q.options.items) = 4
            /\ \A j \in 1..Len(q.options.items) : IsNonBlankString(q.options.items[j])
            /\ IsNumberInRange(q.correctAnswer)

(* C2: every returned question has an integer correctAnswer in {0,1,2,3}    *)
(* that indexes one of its option texts; a candidate whose correctAnswer is *)
(* a non-integer inside the range is not returned.                          *)
C2_IntegerIndex ==
    CallReturned =>
        \A q \in ReturnedQuestions :
            /\ IsIntegerInRange(q.correctAnswer)
            /\ \E j \in 1..Len(q.options.items) :
                  /\ IsNonBlankString(q.options.items[j])
                  /\ ArrayGet(q.options, q.correctAnswer) = q.options.items[j]

(* C3: every returned question has four pairwise distinct option texts.     *)
C3_DistinctOptions ==
    CallReturned =>
        \A q \in ReturnedQuestions :
            \A i, j \in 1..Len(q.options.items) :
                i # j => q.options.items[i] # q.options.items[j]

(* C4: of N candidates of which M fail a per-candidate check, the call      *)
(* returns exactly N-M questions, the i-th built from the i-th candidate    *)
(* that passes all five checks.                                             *)
C4_YieldIsPassingCandidates ==
    (CallEnded /\ ReceivedQuestionsArray) =>
        LET passing == SelectSeq(ReceivedCandidates, PassesChecks)
        IN /\ CallReturned
           /\ Len(outcome.value) = Len(passing)
           /\ \A i \in 1..Len(passing) :
                 /\ outcome.value[i].question = passing[i].question
                 /\ outcome.value[i].principleId = passing[i].principleId
                 /\ outcome.value[i].explanation = passing[i].explanation

(* C5: whatever the shape of an element of the `questions` array, the call  *)
(* does not throw: it succeeds with the remaining questions.                *)
C5_NoPerItemThrow ==
    (CallEnded /\ ReceivedQuestionsArray) => outcome.kind = "return"

(* C6: a completion text that is not valid JSON, or valid JSON without a    *)
(* `questions` array, makes the call fail; it does not return a list.       *)
C6_FatalParseCases ==
    (CallEnded /\ ReceivedText /\ ~ReceivedQuestionsArray) =>
        /\ CallThrew
        /\ outcome.kind = "throw"
        /\ outcome.value = <<>>

\* a call that failed on valid JSON whose `questions` is an object, no array
C6_Witness ==
    /\ CallThrew
    /\ ReceivedText
    /\ ReceivedContent.parses
    /\ ReceivedContent.value = JsonValue("object", NotArray(PlainObject))

(* C7: without a configured OPENAI_API_KEY the call fails with the          *)
(* configuration error and issues no request to the completion service.     *)
C7_NoKeyNoRequest ==
    (apiKey.t = "undefined" \/ apiKey = Str(<<>>)) =>
        /\ requests = 0
        /\ pc # "awaiting"
        /\ completion = NoCompletion
        /\ pc # "idle" =>
              /\ CallThrew
              /\ outcome.kind = "throw"
              /\ outcome.error.message = "OpenAI API key is not configured"

\* a call made without a key has ended
C7_Witness ==
    /\ apiKey.t = "undefined"
    /\ CallThrew
    /\ requests = 0

(* C8: a completion without textual content (no choices, no message, null   *)
(* or empty content) makes the call fail with the empty-content error.      *)
C8_EmptyContentFails ==
    (/\ CallEnded
     /\ completion.status = "resolved"
     /\ \/ completion.choices = <<>>
        \/ ~completion.choices[1].hasMessage
        \/ completion.choices[1].content.t \in {"undefined", "null"}
        \/ completion.choices[1].content.empty) =>
        /\ CallThrew
        /\ outcome.kind = "throw"
        /\ outcome.raised = EmptyContentError

\* a call that failed on a completion whose content is the empty string
C8_Witness ==
    /\ CallThrew
    /\ completion = Resolved(<<Choice(EmptyText)>>)

C10_AtMostOneRequest ==
    /\ requests <= 1
    /\ CallEnded /\ completion.status # "none" => requests = 1

\* a call that ended on a rejection of the service after its one request
C10_Witness ==
    /\ CallThrew
    /\ completion.status = "rejected"
    /\ requests = 1

(* C24: when the completion parses to an object with a `questions` array   *)
(* of which no candidate passes the checks, the empty array included, the   *)
(* call returns the empty list and does not throw.                          *)
C24_ZeroYieldSucceeds ==
    (/\ CallEnded
     /\ ReceivedQuestionsArray
     /\ \A i \in 1..Len(ReceivedCandidates) : ~PassesChecks(ReceivedCandidates[i])) =>
        /\ CallReturned
        /\ outcome = Returned(<<>>)

----------------------------------------------------------------------------
(* The de-biasing step on its own: validQuestions.map(shuffleAnswerPosition) *)
(* over a list of questions that passed the filter, with the calls of       *)
(* Math.random() each question's shuffle makes.                             *)

\* a call of Math.random(): what it decides and the draw it returned
RandomCall(use, value) == [use |-> use, value |-> value]

\* the calls of Math.random() in shuffleAnswerPosition, in order: the call
\* of line 242 is made only when correctAnswer !== 0, the call of line 247
\* only when line 243 did not return
RandomCalls(question, r1, r2) ==
    IF question.correctAnswer # Num(0)
    THEN IF AboveThreshold(r1)
         THEN <<RandomCall("skip", r1)>>
         ELSE <<RandomCall("skip", r1), RandomCall("target", r2)>>
    ELSE <<RandomCall("target", r2)>>

\* every run of shuffleAnswerPosition on a question: its calls and its result
ShuffleRuns(question) ==
    { [calls |-> RandomCalls(question, r1, r2),
       result |-> shuffleAnswerPosition(question, r1, r2)] :
        r1 \in Draws, r2 \in Draws }

RECURSIVE MapRuns(_)
\* every run of the map over a list
MapRuns(list) ==
    IF list = <<>> THEN { <<>> }
    ELSE { <<h>> \o rest : h \in ShuffleRuns(Head(list)),
                           rest \in MapRuns(Tail(list)) }

\* the questions the filter of validateQuestions lets through
ValidatedQuestions ==
    { c \in Candidates : ~PropertyAccessThrows(c) /\ FilterCallback(c) }

ValidatedLists ==
    UNION { [1..len -> ValidatedQuestions] : len \in 0..MaxCandidates }

\* line 237: validQuestions.map(question => this.shuffleAnswerPosition(question))
mapShuffleAnswerPosition ==
    /\ validated = <<>> /\ debiased = <<>>
    /\ \E list \in ValidatedLists :
          \E runs \in MapRuns(list) :
              /\ validated' = list
              /\ randomCalls' = [i \in 1..Len(list) |-> runs[i].calls]
              /\ debiased' = [i \in 1..Len(list) |-> runs[i].result]
    /\ UNCHANGED <<genVars, fallbackVars, costVars, laterVars>>

NextShuffle == mapShuffleAnswerPosition

\* the map runs once on a list; the credential plays no part in it
InitShuffle == Init /\ apiKey = Undefined

SpecShuffle == InitShuffle /\ [][NextShuffle]_vars

\* how often a text occurs among the indexed elements of an array
Occurrences(a, x) == Cardinality({ j \in 1..Len(a.items) : a.items[j] = x })

\* the texts at the indexed positions of an array
Texts(a) == { a.items[j] : j \in 1..Len(a.items) }

\* the call that drew the target, if any
TargetCalls(calls) == { j \in 1..Len(calls) : calls[j].use = "target" }

(* C11: for every question passed through shuffleAnswerPosition and every   *)
(* draw, the collection of the four option texts is the same before and     *)
(* after, and the text at the input's correctAnswer is the text at the      *)
(* output's correctAnswer.                                                  *)
C11_ContentPreserved ==
    \A i \in 1..Len(validated) :
        LET before == validated[i]
            after == debiased[i]
        IN /\ Len(after.options.items) = Len(before.options.items)
           /\ \A x \in Texts(before.options) \cup Texts(after.options) :
                 Occurrences(after.options, x) = Occurrences(before.options, x)
           /\ ArrayGet(after.options, after.correctAnswer)
                 = ArrayGet(before.options, before.correctAnswer)

(* C12: the de-biasing step returns a list as long as the list it receives, *)
(* and each item keeps its question, explanation and principleId.           *)
C12_FrameOfDebias ==
    /\ Len(debiased) = Len(validated)
    /\ \A i \in 1..Len(validated) :
          /\ debiased[i].question = validated[i].question
          /\ debiased[i].explanation = validated[i].explanation
          /\ debiased[i].principleId = validated[i].principleId

\* a list of two questions of which one with an explanation changed position
C12_Witness ==
    /\ Len(validated) = 2
    /\ \E i \in 1..Len(validated) :
          /\ validated[i].explanation # Undefined
          /\ debiased[i].correctAnswer # validated[i].correctAnswer

\* q with the contents of positions c and t exchanged and correctAnswer t
IsSwapOf(after, before, t) ==
    LET c == before.correctAnswer
    IN /\ IsIntegerInRange(c)
       /\ after = [before EXCEPT
                     !.correctAnswer = Num(t),
                     !.options = Array([j \in 1..4 |->
                         IF j = t + 1 THEN before.options.items[c.n + 1]
                         ELSE IF j = c.n + 1 THEN before.options.items[t + 1]
                         ELSE before.options.items[j]])]

(* C13: the results of shuffleAnswerPosition on a validated question q with *)
(* correct index c are exactly q itself, and q with positions c and t       *)
(* swapped and correctAnswer t, for each t in 0..3 other than c; q is       *)
(* returned without a target draw only when c is not 0.                     *)
C13_ShuffleResults ==
    \A i \in 1..Len(validated) :
        LET q == validated[i]
            results == { run.result : run \in ShuffleRuns(q) }
        IN /\ \/ debiased[i] = q
              \/ \E t \in 0..3 : Num(t) # q.correctAnswer /\ IsSwapOf(debiased[i], q, t)
           /\ q \in results
           /\ \A t \in 0..3 :
                 Num(t) # q.correctAnswer =>
                     \E r \in results : IsSwapOf(r, q, t)
           /\ TargetCalls(randomCalls[i]) = {} => q.correctAnswer # Num(0)

(* C14: for a question whose correctAnswer is 0 the shuffle draws a target  *)
(* at once and the final correctAnswer is that target, so each of the four  *)
(* final indices comes from exactly one of the four targets.                *)
C14_TargetIsFinalIndex ==
    \A i \in 1..Len(validated) :
        validated[i].correctAnswer = Num(0) =>
            /\ Len(randomCalls[i]) = 1
            /\ randomCalls[i][1].use = "target"
            /\ debiased[i].correctAnswer.t = "number"
            /\ ~debiased[i].correctAnswer.f
            /\ debiased[i].correctAnswer.n = (4 * randomCalls[i][1].value) \div RandomSteps
            /\ LET runs == ShuffleRuns(validated[i])
               IN \A t \in 0..3 :
                     { run.result.correctAnswer :
                         run \in { x \in runs :
                                     (4 * x.calls[1].value) \div RandomSteps = t } }
                         = { Num(t) }

\* a question that started at 0 and ended at 2
C14_Witness ==
    \E i \in 1..Len(validated) :
        /\ validated[i].correctAnswer = Num(0)
        /\ debiased[i].correctAnswer = Num(2)

----------------------------------------------------------------------------
(* generateFallbackQuestions *)

\* a Principle: the fields generateFallbackQuestions reads
Principle(id, title, oneLiner) == [id |-> id, title |-> title, oneLiner |-> oneLiner]

\* the three fixed distractors of lines 275-277
Distractor1 ==
    Str(<<"Users", " ", "prefer", " ", "complex", " ", "interfaces", " ",
          "with", " ", "many", " ", "options">>)
Distractor2 ==
    Str(<<"Design", " ", "should", " ", "always", " ", "prioritize", " ",
          "aesthetics", " ", "over", " ", "functionality">>)
Distractor3 ==
    Str(<<"All", " ", "users", " ", "behave", " ", "exactly", " ", "the", " ",
          "same", " ", "way">>)

\* `What is the main idea behind ${principle.title}?`
QuestionText(title) ==
    Str(<<"What", " ", "is", " ", "the", " ", "main", " ", "idea", " ",
          "behind", " ">> \o title.s \o <<"?">>)

\* `The correct answer reflects the core concept: "${principle.oneLiner}"`
ExplanationText(oneLiner) ==
    Str(<<"The", " ", "correct", " ", "answer", " ", "reflects", " ", "the", " ",
          "core", " ", "concept:", " ", "\"">> \o oneLiner.s \o <<"\"">>)

\* a callback that leaves the correct answer in the first slot
fallbackQuestionFixedSlot(principle, r) ==
    [t |-> "object",
     question |-> QuestionText(principle.title),
     options |-> Array(<<principle.oneLiner, Distractor1, Distractor2, Distractor3>>),
     correctAnswer |-> Num(0),
     explanation |-> ExplanationText(principle.oneLiner),
     principleId |-> principle.id]

\* a callback that moves the correct answer and still reports the first slot
fallbackQuestionStaleIndex(principle, r) ==
    LET options == Array(<<principle.oneLiner, Distractor1, Distractor2, Distractor3>>)
        correctIndex == Num(FloorTimesFour(r))
        correctAnswer == ArrayGet(options, Num(0))
        swapped ==
            IF correctIndex # Num(0)
            THEN ArraySet(ArraySet(options, Num(0), ArrayGet(options, correctIndex)),
                          correctIndex, correctAnswer)
            ELSE options
    IN [t |-> "object",
        question |-> QuestionText(principle.title),
        options |-> swapped,
        correctAnswer |-> Num(0),
        explanation |-> ExplanationText(principle.oneLiner),
        principleId |-> principle.id]

\* the callback of principles.map, lines 272-297, with its Math.random() draw r
fallbackQuestion(principle, r) ==
    LET options == Array(<<principle.oneLiner, Distractor1, Distractor2, Distractor3>>)
        correctIndex == Num(FloorTimesFour(r))
        correctAnswer == ArrayGet(options, Num(0))
        swapped ==
            IF correctIndex # Num(0)
            THEN ArraySet(ArraySet(options, Num(0), ArrayGet(options, correctIndex)),
                          correctIndex, correctAnswer)
            ELSE options
    IN [t |-> "object",
        question |-> QuestionText(principle.title),
        options |-> swapped,
        correctAnswer |-> correctIndex,
        explanation |-> ExplanationText(principle.oneLiner),
        principleId |-> principle.id]

\* every question the callback can build for a principle
FallbackResults(principle) == { fallbackQuestion(principle, r) : r \in Draws }

RECURSIVE MapFallback(_)
\* principles.map(callback): every list the draws can give
MapFallback(list) ==
    IF list = <<>> THEN { <<>> }
    ELSE { <<h>> \o rest : h \in FallbackResults(Head(list)),
                           rest \in MapFallback(Tail(list)) }

\* the principles the model draws from: two ordinary ones, one with an empty
\* oneLiner and one whose oneLiner is the text of a distractor
Principles ==
    { Principle(Str(<<"p", "1">>), Str(<<"Fitts's", " ", "Law">>),
                Str(<<"Bigger", " ", "and", " ", "closer", " ", "is", " ", "faster">>)),
      Principle(Str(<<"p", "2">>), Str(<<"Hick's", " ", "Law">>),
                Str(<<"More", " ", "choices", " ", "take", " ", "longer">>)),
      Principle(Str(<<"p", "3">>), Str(<<"Empty">>), Str(<<>>)),
      Principle(Str(<<"p", "4">>), Str(<<"Same">>), Distractor2) }

PrincipleLists ==
    UNION { [1..len -> Principles] : len \in 0..MaxPrinciples }

\* a generator that checks the credential first, as generateQuestions does
generateFallbackQuestionsChecked ==
    /\ fallback = Pending
    /\ \E list \in PrincipleLists :
          /\ principles' = list
          /\ IF Falsy(apiKey)
             THEN fallback' = Thrown(ConfigError, ConfigError)
             ELSE \E result \in MapFallback(list) : fallback' = Returned(result)
    /\ UNCHANGED <<genVars, shuffleVars, costVars, laterVars>>

\* lines 271-298: one call of generateFallbackQuestions
generateFallbackQuestions ==
    /\ fallback = Pending
    /\ \E list \in PrincipleLists :
          /\ principles' = list
          /\ \E result \in MapFallback(list) : fallback' = Returned(result)
    /\ UNCHANGED <<genVars, shuffleVars, costVars, laterVars>>

NextFallback == generateFallbackQuestions

SpecFallback == Init /\ [][NextFallback]_vars

FallbackReturned == fallback.kind = "return"
FallbackEnded == fallback.kind # "none"

(* C15: given K principles generateFallbackQuestions returns K questions,   *)
(* the i-th with the id of the i-th principle, the question text templated  *)
(* from its title, four options, and its oneLiner at correctAnswer.         *)
C15_OneQuestionPerPrinciple ==
    FallbackEnded =>
        /\ FallbackReturned
        /\ Len(fallback.value) = Len(principles)
        /\ \A i \in 1..Len(principles) :
              LET q == fallback.value[i]
              IN /\ q.principleId = principles[i].id
                 /\ q.question.t = "string"
                 /\ q.question.s =
                        <<"What", " ", "is", " ", "the", " ", "main", " ", "idea",
                          " ", "behind", " ">> \o principles[i].title.s \o <<"?">>
                 /\ q.options.isArray
                 /\ Len(q.options.items) = 4
                 /\ IsIntegerInRange(q.correctAnswer)
                 /\ q.options.items[q.correctAnswer.n + 1] = principles[i].oneLiner

\* two principles whose questions have the correct answer in different slots
C15_Witness ==
    /\ FallbackReturned
    /\ Len(principles) = 2
    /\ principles[1] # principles[2]
    /\ fallback.value[1].correctAnswer = Num(3)
    /\ fallback.value[2].correctAnswer = Num(1)

(* C16: every fallback question has four options that are non-empty after  *)
(* trimming and pairwise distinct, an integer correctAnswer in 0..3 and a   *)
(* non-empty principleId, whatever the oneLiner of the principle.           *)
C16_FallbackIsValidated ==
    FallbackEnded =>
        /\ FallbackReturned
        /\ \A i \in 1..Len(fallback.value) :
              LET q == fallback.value[i]
              IN /\ q.options.isArray
                 /\ Len(q.options.items) = 4
                 /\ \A j \in 1..Len(q.options.items) :
                       IsNonBlankString(q.options.items[j])
                 /\ \A j, k \in 1..Len(q.options.items) :
                       j # k => q.options.items[j] # q.options.items[k]
                 /\ IsIntegerInRange(q.correctAnswer)
                 /\ IsNonEmptyString(q.principleId)

(* C17: the options of a fallback question are a permutation of the         *)
(* oneLiner and the three fixed distractors, and every slot 0..3 is the     *)
(* slot of the correct answer in some execution.                            *)
C17_PermutationAndEverySlot ==
    FallbackEnded =>
        \A i \in 1..Len(principles) :
            LET q == fallback.value[i]
                fixed == Array(<<principles[i].oneLiner,
                    Str(<<"Users", " ", "prefer", " ", "complex", " ",
                          "interfaces", " ", "with", " ", "many", " ", "options">>),
                    Str(<<"Design", " ", "should", " ", "always", " ", "prioritize",
                          " ", "aesthetics", " ", "over", " ", "functionality">>),
                    Str(<<"All", " ", "users", " ", "behave", " ", "exactly", " ",
                          "the", " ", "same", " ", "way">>)>>)
            IN /\ Len(q.options.items) = 4
               /\ q.options.extra = <<>>
               /\ \A x \in Texts(fixed) \cup Texts(q.options) :
                     Occurrences(q.options, x) = Occurrences(fixed, x)
               /\ \A slot \in 0..3 :
                     \E r \in FallbackResults(principles[i]) :
                         /\ r.correctAnswer = Num(slot)
                         /\ r.options.items[slot + 1] = principles[i].oneLiner

\* a fallback question with the correct answer in the last slot
C17_Witness ==
    /\ FallbackReturned
    /\ Len(principles) >= 1
    /\ fallback.value[1].correctAnswer = Num(3)
    /\ fallback.value[1].options.items[4] = principles[1].oneLiner
    /\ fallback.value[1].options.items[1] = Distractor3

(* C18: generateFallbackQuestions sends no request to the completion        *)
(* service and does not fail, with or without a configured credential.      *)
C18_FallbackNeedsNoService ==
    /\ requests = 0
    /\ completion = NoCompletion
    /\ FallbackEnded => FallbackReturned

\* a fallback call that returned questions while no credential is configured
C18_Witness ==
    /\ Falsy(apiKey)
    /\ FallbackReturned
    /\ Len(fallback.value) = 2

----------------------------------------------------------------------------
(* estimateTokenCost.  estimatedCostUSD is a multiple of 0.01: the model    *)
(* keeps it as the number of hundredths, the value of                       *)
(* Math.round(cost * 100).                                                  *)

averageTokensPerPrinciple == 150
tokensPerQuestion == 100

\* the default `questionsPerPrinciple: number = 5` of the signature
QuestionsPerPrincipleOrDefault(questionsPerPrinciple) ==
    IF questionsPerPrinciple.t = "undefined" THEN 5 ELSE questionsPerPrinciple.n

\* cost * 100 * 1000 in exact arithmetic:
\* cost = promptTokens * 0.03 / 1000 + completionTokens * 0.06 / 1000
CostTimes100000(promptTokens, completionTokens) ==
    3 * promptTokens + 6 * completionTokens

(* The (principles.length, questionsPerPrinciple) for which cost * 100 is   *)
(* exactly halfway between two integers in exact arithmetic while its       *)
(* IEEE-754 double evaluation by lines 313 and 318 falls below the halfway  *)
(* point (19.499999999999996 for 8 and 3), so that Math.round rounds down.  *)
(* On every other halfway case with length <= 14 and questionsPerPrinciple  *)
(* <= 16 the double is exactly halfway and Math.round rounds up; off the    *)
(* halfway cases the double rounds as the exact value does.                 *)
DoubleBelowHalfway == { <<8, 3>> }

\* Math.round(cost * 100)
RoundedHundredths(length, perPrinciple, promptTokens, completionTokens) ==
    LET exact == CostTimes100000(promptTokens, completionTokens)
    IN IF <<length, perPrinciple>> \in DoubleBelowHalfway
       THEN exact \div 1000
       ELSE (exact + 500) \div 1000

\* an estimate that truncates the cost instead of rounding it
estimateTokenCostTruncated(length, questionsPerPrinciple) ==
    LET perPrinciple == QuestionsPerPrincipleOrDefault(questionsPerPrinciple)
        promptTokens == length * averageTokensPerPrinciple + 500
        completionTokens == length * perPrinciple * tokensPerQuestion
    IN [estimatedPromptTokens |-> promptTokens,
        estimatedCompletionTokens |-> completionTokens,
        estimatedCostHundredths |->
            CostTimes100000(promptTokens, completionTokens) \div 1000]

\* an estimate that subtracts the completion cost from the prompt cost
estimateTokenCostMinus(length, questionsPerPrinciple) ==
    LET perPrinciple == QuestionsPerPrincipleOrDefault(questionsPerPrinciple)
        promptTokens == length * averageTokensPerPrinciple + 500
        completionTokens == length * perPrinciple * tokensPerQuestion
    IN [estimatedPromptTokens |-> promptTokens,
        estimatedCompletionTokens |-> completionTokens,
        estimatedCostHundredths |->
            (3 * promptTokens - 6 * completionTokens + 500) \div 1000]

\* lines 301-320, for principles.length = length
estimateTokenCost(length, questionsPerPrinciple) ==
    LET perPrinciple == QuestionsPerPrincipleOrDefault(questionsPerPrinciple)
        promptTokens == length * averageTokensPerPrinciple + 500
        completionTokens == length * perPrinciple * tokensPerQuestion
    IN [estimatedPromptTokens |-> promptTokens,
        estimatedCompletionTokens |-> completionTokens,
        estimatedCostHundredths |->
            RoundedHundredths(length, perPrinciple, promptTokens, completionTokens)]

CostInput(length, questionsPerPrinciple) ==
    [called |-> TRUE, length |-> length, questionsPerPrinciple |-> questionsPerPrinciple]

\* one call of estimateTokenCost; calls follow one another
estimateTokenCostCall ==
    /\ \E length \in 0..MaxCostPrinciples :
          \E questionsPerPrinciple \in
                {Undefined} \cup { Num(k) : k \in 0..MaxPerPrinciple } :
              /\ costInput' = CostInput(length, questionsPerPrinciple)
              /\ costEstimate' = estimateTokenCost(length, questionsPerPrinciple)
    /\ UNCHANGED <<genVars, shuffleVars, fallbackVars, laterVars>>

NextCost == estimateTokenCostCall

\* the credential plays no part in the estimate
InitCost == Init /\ apiKey = Undefined

SpecCost == InitCost /\ [][NextCost]_vars

\* a call with a numeric questionsPerPrinciple
NumericCall(input) == input.called /\ input.questionsPerPrinciple.t = "number"

(* C19: for n principles and q questions per principle the prompt tokens    *)
(* are 150*n + 500, the completion tokens 100*n*q and the cost is           *)
(* (0.03*prompt + 0.06*completion)/1000 rounded to a nearest hundredth;     *)
(* for n = 1 and q = 5 the result is 650, 500 and 0.05.                     *)
C19_CostFormula ==
    NumericCall(costInput) =>
        LET n == costInput.length
            q == costInput.questionsPerPrinciple.n
            expectedPrompt == 150 * n + 500
            expectedCompletion == 100 * n * q
            \* thousand times the distance, in hundredths, from the exact cost
            off == 1000 * costEstimate.estimatedCostHundredths
                       - (3 * expectedPrompt + 6 * expectedCompletion)
        IN /\ costEstimate.estimatedPromptTokens = expectedPrompt
           /\ costEstimate.estimatedCompletionTokens = expectedCompletion
           /\ -500 <= off /\ off <= 500
           /\ (n = 1 /\ q = 5) =>
                 /\ costEstimate.estimatedPromptTokens = 650
                 /\ costEstimate.estimatedCompletionTokens = 500
                 /\ costEstimate.estimatedCostHundredths = 5

\* the estimate for one principle and five questions
C19_Witness ==
    /\ costInput = CostInput(1, Num(5))
    /\ costEstimate.estimatedCostHundredths = 5

AtLeast(a, b) ==
    /\ a.estimatedPromptTokens >= b.estimatedPromptTokens
    /\ a.estimatedCompletionTokens >= b.estimatedCompletionTokens
    /\ a.estimatedCostHundredths >= b.estimatedCostHundredths

(* C20: with non-negative arguments the three outputs of estimateTokenCost  *)
(* are non-negative, and a call with at least as many principles and at     *)
(* least as many questions per principle as another estimates at least as   *)
(* much in all three outputs.                                               *)
C20_MonotoneNonNegative ==
    [][ /\ NumericCall(costInput') =>
            /\ costEstimate'.estimatedPromptTokens >= 0
            /\ costEstimate'.estimatedCompletionTokens >= 0
            /\ costEstimate'.estimatedCostHundredths >= 0
        /\ ( /\ NumericCall(costInput) /\ NumericCall(costInput')
             /\ costInput'.length >= costInput.length
             /\ costInput'.questionsPerPrinciple.n >= costInput.questionsPerPrinciple.n ) =>
               AtLeast(costEstimate', costEstimate) ]_vars

\* the estimate for eight principles and three questions, a halfway case
C20_Witness ==
    /\ costInput = CostInput(8, Num(3))
    /\ costEstimate.estimatedCostHundredths = 19

----------------------------------------------------------------------------
(* generateQuestions calls in flight together, and generateBatchQuestions,  *)
(* which starts one call per group and awaits Promise.allSettled of them.   *)
(* A call owns its parameters and locals; process.env, the module's openai  *)
(* client and Math.random are what the calls have in common.                *)

\* most groups given to generateBatchQuestions
MaxGroups == 2
\* most generateQuestions calls a caller has in flight together
MaxInvocations == 2

\* a generateQuestions call: the principles it was given, its position, the
\* requests it sent, the answer of the service and how it ended
Invocation(group, position, sent, answer, ended) ==
    [principles |-> group, pc |-> position, requests |-> sent,
     completion |-> answer, outcome |-> ended]

\* a call that sends the request without the credential check
StartedInvocationUnchecked(group) ==
    Invocation(group, "awaiting", 1, NoCompletion, Pending)

\* lines 48-70: a call up to its await, or to the throw of line 49
StartedInvocation(group) ==
    IF Falsy(apiKey)
    THEN Invocation(group, "thrown", 0, NoCompletion,
                    Thrown(ConfigError, ConfigError))
    ELSE Invocation(group, "awaiting", 1, NoCompletion, Pending)

InvocationEnded(call) == call.pc \in {"returned", "thrown"}

\* the principles the store holds, in the order of their titles
StoredPrinciples ==
    <<Principle(Str(<<"p", "3">>), Str(<<"Empty">>), Str(<<>>)),
      Principle(Str(<<"p", "1">>), Str(<<"Fitts's", " ", "Law">>),
                Str(<<"Bigger", " ", "and", " ", "closer", " ", "is", " ", "faster">>)),
      Principle(Str(<<"p", "2">>), Str(<<"Hick's", " ", "Law">>),
                Str(<<"More", " ", "choices", " ", "take", " ", "longer">>)),
      Principle(Str(<<"p", "4">>), Str(<<"Same">>), Distractor2)>>

Q1AtZero == Candidate(Q1, ABCD, Num(0), P1, Expl)
Q2AtZero == Candidate(Q2, ABCD, Num(0), P1, Undefined)

QuestionsText(list) == Resolved(<<Choice(JsonText(JsonValue("object", Array(list))))>>)

\* the completions the service resolves the calls in flight with: no choice,
\* an empty `questions` array, one question and two questions
CallCompletions ==
    { Resolved(<<>>),
      QuestionsText(<<>>),
      QuestionsText(<<Q1AtZero>>),
      QuestionsText(<<Q2AtZero, Q1AtZero>>) }

\* the candidates of a completion that carries a `questions` array
CandidatesOf(c) ==
    LET content == ContentOf(c)
    IN IF content.t = "string" /\ content.parses /\ content.value.t = "object"
          /\ content.value.questions.isArray
       THEN content.value.questions.items
       ELSE <<>>

\* a caller starts a generateQuestions call while others are in flight
generateQuestionsInvoked ==
    /\ batchPc = "idle"
    /\ Len(invocations) < MaxInvocations
    /\ LET call == StartedInvocation(<<StoredPrinciples[Len(invocations) + 1]>>)
       IN /\ invocations' = Append(invocations, call)
          /\ settleOrder' = IF InvocationEnded(call)
                            THEN Append(settleOrder, Len(invocations) + 1)
                            ELSE settleOrder
    /\ UNCHANGED <<principleGroups, batchPc, batchOutcome, warned>>
    /\ UNCHANGED <<genVars, shuffleVars, fallbackVars, costVars, heapVars, handlerVars>>

\* the awaited request of one of the calls rejects
InvocationRejects ==
    /\ \E i \in 1..Len(invocations) :
          /\ invocations[i].pc = "awaiting"
          /\ \E reason \in TransportErrors :
                invocations' = [invocations EXCEPT ![i] =
                    Invocation(@.principles, "thrown", @.requests, Rejected(reason),
                               Catch(Thrown(reason, reason)))]
          /\ settleOrder' = Append(settleOrder, i)
    /\ UNCHANGED <<principleGroups, batchPc, batchOutcome, warned>>
    /\ UNCHANGED <<genVars, shuffleVars, fallbackVars, costVars, heapVars, handlerVars>>

\* a call that parses the completion the module received first
InvocationResolvesShared ==
    /\ \E i \in 1..Len(invocations) :
          /\ invocations[i].pc = "awaiting"
          /\ \E c \in CallCompletions :
                LET first == IF settleOrder # <<>>
                                /\ invocations[settleOrder[1]].completion.status = "resolved"
                             THEN invocations[settleOrder[1]].completion
                             ELSE c
                IN \E o \in AfterCompletion(first) :
                      invocations' = [invocations EXCEPT ![i] =
                          Invocation(@.principles, PcOf(o), @.requests, c, Catch(o))]
          /\ settleOrder' = Append(settleOrder, i)
    /\ UNCHANGED <<principleGroups, batchPc, batchOutcome, warned>>
    /\ UNCHANGED <<genVars, shuffleVars, fallbackVars, costVars, heapVars, handlerVars>>

\* the awaited request of one of the calls resolves: its lines 72-89 run
InvocationResolves ==
    /\ \E i \in 1..Len(invocations) :
          /\ invocations[i].pc = "awaiting"
          /\ \E c \in CallCompletions :
                \E o \in AfterCompletion(c) :
                    invocations' = [invocations EXCEPT ![i] =
                        Invocation(@.principles, PcOf(o), @.requests, c, Catch(o))]
          /\ settleOrder' = Append(settleOrder, i)
    /\ UNCHANGED <<principleGroups, batchPc, batchOutcome, warned>>
    /\ UNCHANGED <<genVars, shuffleVars, fallbackVars, costVars, heapVars, handlerVars>>

\* lines 98-103: one generateQuestions call per group, then the await
generateBatchQuestionsCall ==
    /\ batchPc = "idle"
    /\ invocations = <<>>
    /\ \E count \in 0..MaxGroups :
          /\ principleGroups' = [g \in 1..count |-> <<StoredPrinciples[g]>>]
          /\ invocations' = [g \in 1..count |-> StartedInvocation(<<StoredPrinciples[g]>>)]
          /\ settleOrder' = IF Falsy(apiKey) THEN [g \in 1..count |-> g] ELSE <<>>
    /\ batchPc' = "awaiting"
    /\ UNCHANGED <<batchOutcome, warned>>
    /\ UNCHANGED <<genVars, shuffleVars, fallbackVars, costVars, heapVars, handlerVars>>

\* a forEach that visits the results in the order in which they settled
AllQuestionsInSettleOrder(results) ==
    LET RECURSIVE Visit(_)
        Visit(k) ==
            IF k > Len(settleOrder) THEN <<>>
            ELSE (IF results[settleOrder[k]].outcome.kind = "return"
                  THEN results[settleOrder[k]].outcome.value
                  ELSE <<>>) \o Visit(k + 1)
    IN Visit(1)

RECURSIVE AllQuestions(_)
\* lines 105-114: allQuestions after results.forEach
AllQuestions(results) ==
    IF results = <<>> THEN <<>>
    ELSE (IF Head(results).outcome.kind = "return"
          THEN Head(results).outcome.value
          ELSE <<>>) \o AllQuestions(Tail(results))

RECURSIVE BatchErrors(_, _)
\* lines 106-114: errors after results.forEach; `Batch ${index + 1}: ${reason}`
BatchErrors(results, index) ==
    IF index >= Len(results) THEN <<>>
    ELSE (IF results[index + 1].outcome.kind = "throw"
          THEN << [batch |-> index + 1, reason |-> results[index + 1].outcome.error] >>
          ELSE <<>>) \o BatchErrors(results, index + 1)

AllSettled == \A i \in 1..Len(invocations) : InvocationEnded(invocations[i])

\* an await of Promise.all: the first rejection is thrown to line 122
allSettledResolvesFailFast ==
    /\ batchPc = "awaiting"
    /\ AllSettled
    /\ LET errors == BatchErrors(invocations, 0)
       IN IF errors # <<>>
          THEN /\ batchOutcome' =
                      Thrown(errors[1].reason,
                             MkError("generateBatchQuestions:123",
                                     "Batch generation failed: " \o errors[1].reason.message))
               /\ batchPc' = "thrown"
               /\ warned' = warned
          ELSE /\ batchOutcome' = Returned(AllQuestions(invocations))
               /\ batchPc' = "returned"
               /\ warned' = warned
    /\ UNCHANGED <<principleGroups, invocations, settleOrder>>
    /\ UNCHANGED <<genVars, shuffleVars, fallbackVars, costVars, heapVars, handlerVars>>

\* lines 103-120: Promise.allSettled resolves once every call has settled;
\* it does not reject, and nothing in lines 105-120 throws
allSettledResolves ==
    /\ batchPc = "awaiting"
    /\ AllSettled
    /\ batchOutcome' = Returned(AllQuestions(invocations))
    /\ warned' = BatchErrors(invocations, 0)
    /\ batchPc' = "returned"
    /\ UNCHANGED <<principleGroups, invocations, settleOrder>>
    /\ UNCHANGED <<genVars, shuffleVars, fallbackVars, costVars, heapVars, handlerVars>>

NextBatch ==
    \/ generateBatchQuestionsCall
    \/ InvocationRejects
    \/ InvocationResolves
    \/ allSettledResolves

SpecBatch == Init /\ [][NextBatch]_vars

NextConcurrent ==
    \/ generateQuestionsInvoked
    \/ InvocationRejects
    \/ InvocationResolves

SpecConcurrent == Init /\ [][NextConcurrent]_vars

BatchReturned == batchPc = "returned"
BatchEnded == batchPc \in {"returned", "thrown"}

\* the groups whose call succeeded, and those whose call failed
Succeeded(results) == { g \in 1..Len(results) : results[g].outcome.kind = "return" }
Failed(results) == { g \in 1..Len(results) : results[g].outcome.kind = "throw" }

\* how often x occurs in a list
CountIn(list, x) == Cardinality({ k \in 1..Len(list) : list[k] = x })

RECURSIVE CountInGroups(_, _, _)
\* how often x occurs in the lists returned by the calls of the groups gs
CountInGroups(results, gs, x) ==
    IF gs = {} THEN 0
    ELSE LET g == CHOOSE h \in gs : TRUE
         IN CountIn(results[g].outcome.value, x)
                + CountInGroups(results, gs \ {g}, x)

(* C21: generateBatchQuestions over G groups starts one generateQuestions   *)
(* call per group, each sending at most one request; it returns only after  *)
(* every call has settled, it returns the questions of the groups whose     *)
(* call succeeded and of no other, and it does not fail, whichever subset   *)
(* of the groups failed.                                                    *)
C21_BatchPartialFailure ==
    /\ batchPc # "idle" =>
          /\ Len(invocations) = Len(principleGroups)
          /\ \A g \in 1..Len(principleGroups) :
                /\ invocations[g].principles = principleGroups[g]
                /\ invocations[g].requests <= 1
    /\ batchPc # "thrown"
    /\ BatchEnded =>
          /\ AllSettled
          /\ batchOutcome.kind = "return"
          /\ \A g \in Succeeded(invocations) :
                \A k \in 1..Len(invocations[g].outcome.value) :
                    LET x == invocations[g].outcome.value[k]
                    IN CountIn(batchOutcome.value, x)
                           = CountInGroups(invocations, Succeeded(invocations), x)
          /\ \A k \in 1..Len(batchOutcome.value) :
                \E g \in Succeeded(invocations) :
                    CountIn(invocations[g].outcome.value, batchOutcome.value[k]) > 0

\* a batch of two groups that returned the question of the second group
\* after the call of the first group failed
C21_Witness ==
    /\ BatchReturned
    /\ Len(invocations) = 2
    /\ invocations[1].outcome.kind = "throw"
    /\ invocations[2].outcome.kind = "return"
    /\ Len(invocations[2].outcome.value) = 1
    /\ Len(batchOutcome.value) = 1

\* the results in which every failed call is a call that yielded no question
WithoutFailures(results) ==
    [g \in 1..Len(results) |->
        IF results[g].outcome.kind = "throw"
        THEN Invocation(results[g].principles, "returned", 1, QuestionsText(<<>>),
                        Returned(<<>>))
        ELSE results[g]]

(* C22: when some groups of a batch fail, what generateBatchQuestions gives *)
(* its caller carries the errors of the groups: it is not what the caller   *)
(* gets when the same groups yield no question without failing.             *)
C22_ErrorsGivenToCaller ==
    (BatchEnded /\ Failed(invocations) # {}) =>
        batchOutcome # Returned(AllQuestions(WithoutFailures(invocations)))

\* the first position of the candidate with the question text of q
CandidatePosition(items, q) ==
    CHOOSE j \in 1..Len(items) :
        /\ items[j].question = q.question
        /\ \A h \in 1..(j - 1) : items[h].question # q.question

\* the questions the succeeded groups before group g returned
RECURSIVE Offset(_, _)
Offset(results, g) ==
    IF g <= 1 THEN 0
    ELSE Offset(results, g - 1)
            + (IF results[g - 1].outcome.kind = "return"
               THEN Len(results[g - 1].outcome.value)
               ELSE 0)

(* C27: the list generateBatchQuestions returns is the lists of the         *)
(* succeeded groups one after the other in the order of the groups in the   *)
(* argument, in whatever order the calls settled; the questions a call      *)
(* returns are in the order of their candidates in the completion.          *)
C27_InputOrder ==
    /\ BatchReturned =>
          /\ Len(batchOutcome.value) = Offset(invocations, Len(invocations) + 1)
          /\ \A g \in Succeeded(invocations) :
                \A k \in 1..Len(invocations[g].outcome.value) :
                    batchOutcome.value[Offset(invocations, g) + k]
                        = invocations[g].outcome.value[k]
    /\ \A g \in Succeeded(invocations) :
          LET items == CandidatesOf(invocations[g].completion)
              list == invocations[g].outcome.value
          IN \A a, b \in 1..Len(list) :
                a < b =>
                    /\ \E j \in 1..Len(items) : items[j].question = list[a].question
                    /\ \E j \in 1..Len(items) : items[j].question = list[b].question
                    /\ CandidatePosition(items, list[a]) < CandidatePosition(items, list[b])

\* a batch whose second group settled first with two questions, and whose
\* first group then returned one question
C27_Witness ==
    /\ BatchReturned
    /\ settleOrder = <<2, 1>>
    /\ Len(invocations[1].outcome.value) = 1
    /\ Len(invocations[2].outcome.value) = 2
    /\ batchOutcome.value[1].question = Q1
    /\ batchOutcome.value[2].question = Q2
    /\ batchOutcome.value[3].question = Q1

(* C28: a batch called without a configured credential, or one in which     *)
(* every group fails, returns the empty list and does not throw; without a  *)
(* credential every group ended on the configuration error and sent no      *)
(* request; the caller gets what it gets when every group yields no         *)
(* question.                                                                *)
C28_AllFailedLooksEmpty ==
    (BatchEnded /\ (Falsy(apiKey) \/ Failed(invocations) = 1..Len(invocations))) =>
        /\ BatchReturned
        /\ batchOutcome = Returned(<<>>)
        /\ Falsy(apiKey) =>
              \A g \in 1..Len(invocations) :
                  /\ invocations[g].outcome.raised = ConfigError
                  /\ invocations[g].requests = 0
        /\ batchOutcome = Returned(AllQuestions(WithoutFailures(invocations)))

\* a batch of two groups called without a credential returned the empty list
C28_Witness ==
    /\ Falsy(apiKey)
    /\ BatchReturned
    /\ Len(invocations) = 2
    /\ Failed(invocations) = {1, 2}
    /\ batchOutcome = Returned(<<>>)

\* how a call can end when it runs alone with the credential key and the
\* answer of the service given, over the draws of Math.random()
AloneOutcomes(key, answer) ==
    IF Falsy(key) THEN { Thrown(ConfigError, ConfigError) }
    ELSE IF answer.status = "rejected"
    THEN { Thrown(answer.reason, WrapError(answer.reason)) }
    ELSE { Catch(o) : o \in AfterCompletion(answer) }

(* C23: a generateQuestions call that ends while other calls are in flight  *)
(* ends as it can end alone with the same credential and the same answer of *)
(* the service, and a step of one call changes no other call and no call    *)
(* that has ended.                                                          *)
C23_CallsIndependent ==
    [][ /\ \A i \in 1..Len(invocations') :
              ( /\ InvocationEnded(invocations'[i])
                /\ (i > Len(invocations) \/ invocations'[i] # invocations[i]) ) =>
                  invocations'[i].outcome
                      \in AloneOutcomes(apiKey', invocations'[i].completion)
        /\ \A i \in 1..Len(invocations) :
              /\ i <= Len(invocations')
              /\ InvocationEnded(invocations[i]) => invocations'[i] = invocations[i]
        /\ Cardinality({ i \in 1..Len(invocations) :
                            invocations'[i] # invocations[i] }) <= 1 ]_vars

\* two calls in flight together of which the second ended first, on another
\* completion than the first, and both returned questions
C23_Witness ==
    /\ Len(invocations) = 2
    /\ settleOrder = <<2, 1>>
    /\ invocations[1].outcome.kind = "return"
    /\ invocations[2].outcome.kind = "return"
    /\ Len(invocations[1].outcome.value) = 1
    /\ Len(invocations[2].outcome.value) = 2

----------------------------------------------------------------------------
(* shuffleAnswerPosition on references.  A question is an object on a heap  *)
(* and its `options` property holds the address of an array; an address is  *)
(* the position of the object or array in the heap.                         *)

Heap(objects, arrays) == [objects |-> objects, arrays |-> arrays]

\* the object of a question whose options array is at `address`
QuestionObject(q, address) ==
    [question |-> q.question, options |-> address,
     correctAnswer |-> q.correctAnswer, principleId |-> q.principleId,
     explanation |-> q.explanation]

\* the heap that holds the question q and its options array, both at address 1
HeapOf(q) == Heap(<<QuestionObject(q, 1)>>, <<q.options>>)

\* the question at an address, read with its options
Deref(heap, ref) ==
    Candidate(heap.objects[ref].question,
              heap.arrays[heap.objects[ref].options],
              heap.objects[ref].correctAnswer,
              heap.objects[ref].principleId,
              heap.objects[ref].explanation)

\* a shuffle that swaps in the array of the question and returns the question
shuffleOnHeapInPlace(heap, ref, r1, r2) ==
    LET question == heap.objects[ref]
    IN IF question.correctAnswer # Num(0) /\ AboveThreshold(r1)
       THEN [heap |-> heap, result |-> ref]
       ELSE LET newCorrectIndex == Num(FloorTimesFour(r2))
            IN IF newCorrectIndex = question.correctAnswer
               THEN [heap |-> heap, result |-> ref]
               ELSE LET newOptions == heap.arrays[question.options]
                        correctOption == ArrayGet(newOptions, question.correctAnswer)
                        targetOption == ArrayGet(newOptions, newCorrectIndex)
                        swapped ==
                            ArraySet(ArraySet(newOptions, question.correctAnswer, targetOption),
                                     newCorrectIndex, correctOption)
                    IN [heap |->
                            Heap([heap.objects EXCEPT ![ref].correctAnswer = newCorrectIndex],
                                 [heap.arrays EXCEPT ![question.options] = swapped]),
                        result |-> ref]

\* lines 240-268 for the question at address ref, with the draws r1 and r2:
\* the heap after the call and the address returned
shuffleOnHeap(heap, ref, r1, r2) ==
    LET question == heap.objects[ref]
    IN IF question.correctAnswer # Num(0) /\ AboveThreshold(r1)
       THEN [heap |-> heap, result |-> ref]
       ELSE LET newCorrectIndex == Num(FloorTimesFour(r2))
            IN IF newCorrectIndex = question.correctAnswer
               THEN [heap |-> heap, result |-> ref]
               ELSE LET \* const newOptions = [...question.options]
                        newOptions == ArraySpread(heap.arrays[question.options])
                        correctOption == ArrayGet(newOptions, question.correctAnswer)
                        targetOption == ArrayGet(newOptions, newCorrectIndex)
                        swapped ==
                            ArraySet(ArraySet(newOptions, question.correctAnswer, targetOption),
                                     newCorrectIndex, correctOption)
                        \* { ...question, options: newOptions, correctAnswer: newCorrectIndex }
                        created == [question EXCEPT
                                      !.options = Len(heap.arrays) + 1,
                                      !.correctAnswer = newCorrectIndex]
                    IN [heap |-> Heap(Append(heap.objects, created),
                                      Append(heap.arrays, swapped)),
                        result |-> Len(heap.objects) + 1]

\* every run of the shuffle on a question: the heap before, the address given,
\* the heap after and the address returned
RefRuns(q) ==
    { LET done == shuffleOnHeap(HeapOf(q), 1, r1, r2)
      IN [before |-> HeapOf(q), input |-> 1, after |-> done.heap, result |-> done.result] :
        r1 \in Draws, r2 \in Draws }

RECURSIVE MapRefRuns(_)
\* every run of the map of line 237 over a list
MapRefRuns(list) ==
    IF list = <<>> THEN { <<>> }
    ELSE { <<h>> \o rest : h \in RefRuns(Head(list)),
                           rest \in MapRefRuns(Tail(list)) }

\* line 237 over a list of questions that passed the filter
mapShuffleOnHeap ==
    /\ refRuns = <<>>
    /\ \E list \in ValidatedLists :
          \E done \in MapRefRuns(list) : refRuns' = done
    /\ UNCHANGED <<genVars, shuffleVars, fallbackVars, costVars, batchVars, handlerVars>>

NextHeap == mapShuffleOnHeap

SpecHeap == InitShuffle /\ [][NextHeap]_vars

(* C26: shuffleAnswerPosition leaves the question it is given as it was,    *)
(* with the same options array holding the same elements and the same       *)
(* correctAnswer; when the correctAnswer of its result differs from that of *)
(* the input, the result is an object created by the call whose options     *)
(* array is an array created by the call.                                   *)
C26_InputNotMutated ==
    \A i \in 1..Len(refRuns) :
        LET run == refRuns[i]
            given == run.before.objects[run.input]
        IN /\ run.after.objects[run.input] = given
           /\ run.after.arrays[given.options] = run.before.arrays[given.options]
           /\ \A a \in 1..Len(run.before.objects) :
                 run.after.objects[a] = run.before.objects[a]
           /\ \A a \in 1..Len(run.before.arrays) :
                 run.after.arrays[a] = run.before.arrays[a]
           /\ run.after.objects[run.result].correctAnswer # given.correctAnswer =>
                 /\ run.result # run.input
                 /\ run.result > Len(run.before.objects)
                 /\ run.after.objects[run.result].options # given.options
                 /\ run.after.objects[run.result].options > Len(run.before.arrays)

\* a question that was at 0: the result is a second object, at 2, with a
\* second array
C26_Witness ==
    \E i \in 1..Len(refRuns) :
        /\ refRuns[i].before.objects[1].correctAnswer = Num(0)
        /\ refRuns[i].result = 2
        /\ refRuns[i].after.objects[2].correctAnswer = Num(2)
        /\ refRuns[i].after.objects[2].options = 2
        /\ refRuns[i].after.arrays[2].items[3] = refRuns[i].before.arrays[1].items[1]

----------------------------------------------------------------------------
(* The generate endpoint (src/unnamed/part_008): the handler validates the  *)
(* request, reads the principles, calls generateQuestions, falls back to    *)
(* generateFallbackQuestions when that call throws, and gives the questions *)
(* to DatabaseService.createQuestions.                                      *)

Request(method, ids, perPrinciple, level) ==
    [method |-> method, principleIds |-> ids,
     questionsPerPrinciple |-> perPrinciple, difficulty |-> level]

Ids(list) == [t |-> "array", ids |-> list]

Response(status, success, code, total) ==
    [status |-> status, success |-> success, code |-> code, totalGenerated |-> total]

Digits == <<"0", "1", "2", "3", "4", "5", "6", "7", "8", "9">>

RECURSIVE DecimalValue(_)
\* the value of a sequence of decimal digits
DecimalValue(chars) ==
    IF chars = <<>> THEN 0
    ELSE 10 * DecimalValue(SubSeq(chars, 1, Len(chars) - 1))
            + (CHOOSE d \in 0..9 : Digits[d + 1] = chars[Len(chars)])

(* The number a relational operator converts its operand to, for undefined, *)
(* null, numbers and strings; a string is a sequence of single characters   *)
(* here, and the numerals are the unsigned decimal integers.  nan tells     *)
(* that the operand converts to NaN.                                        *)
ToNumber(v) ==
    IF v.t = "number" THEN [nan |-> FALSE, n |-> v.n, f |-> v.f]
    ELSE IF v.t = "null" THEN [nan |-> FALSE, n |-> 0, f |-> FALSE]
    ELSE IF v.t = "string"
    THEN LET text == Trim(v.s)
         IN IF \A j \in 1..Len(text) : \E d \in 1..10 : Digits[d] = text[j]
            THEN [nan |-> FALSE, n |-> DecimalValue(text), f |-> FALSE]
            ELSE [nan |-> TRUE, n |-> 0, f |-> FALSE]
    ELSE [nan |-> TRUE, n |-> 0, f |-> FALSE]

\* v < k and v > k for an integer k: a comparison with NaN is false
LessThan(v, k) == ~ToNumber(v).nan /\ ToNumber(v).n < k
GreaterThan(v, k) ==
    /\ ~ToNumber(v).nan
    /\ (ToNumber(v).n > k \/ (ToNumber(v).n = k /\ ToNumber(v).f))

\* a || b
OrElse(a, b) == IF Falsy(a) THEN b ELSE a

Easy == Str(<<"easy">>)
Medium == Str(<<"medium">>)
Hard == Str(<<"hard">>)

\* the ids of the principles of the store, and one id that no principle has
IdP1 == Str(<<"p", "1">>)
IdP2 == Str(<<"p", "2">>)
IdUnknown == Str(<<"z", "z">>)

\* the requests the handler receives
Requests ==
    { Request(method, NoIds, Undefined, Undefined) : method \in {"OPTIONS", "GET"} }
    \cup
    { Request("POST", ids, perPrinciple, level) :
        ids \in { NoIds, Ids(<<>>), Ids(<<IdUnknown>>), Ids(<<IdP1>>),
                  Ids(<<IdP2, IdP1>>), Ids(<<IdP1, IdUnknown>>) },
        perPrinciple \in { Undefined, Num(0), Num(1), Num(10), Num(11), Num(-1),
                           Str(<<"m", "a", "n", "y">>), Str(<<"7">>), Str(<<"2", "0">>) },
        level \in { Undefined, Easy, Medium, Hard, Str(<<"extreme">>) } }

\* lines 37 and 47: the values the handler validates and passes on
QuestionsPerPrincipleOf(req) == OrElse(req.questionsPerPrinciple, Num(5))
DifficultyOf(req) == OrElse(req.difficulty, Medium)

\* lines 12-54: the response of a request the handler rejects before it reads
\* the principles, NoResponse for a request it goes on with
EarlyResponse(req) ==
    IF req.method = "OPTIONS" THEN Response(200, FALSE, "", Undefined)
    ELSE IF req.method # "POST"
    THEN Response(405, FALSE, "METHOD_NOT_ALLOWED", Undefined)
    ELSE IF req.principleIds.t = "undefined" \/ Len(req.principleIds.ids) = 0
    THEN Response(400, FALSE, "MISSING_PRINCIPLE_IDS", Undefined)
    ELSE IF \/ LessThan(QuestionsPerPrincipleOf(req), 1)
            \/ GreaterThan(QuestionsPerPrincipleOf(req), 10)
    THEN Response(400, FALSE, "INVALID_QUESTIONS_COUNT", Undefined)
    ELSE IF DifficultyOf(req) \notin {Easy, Medium, Hard}
    THEN Response(400, FALSE, "INVALID_DIFFICULTY", Undefined)
    ELSE NoResponse

\* lines 58-60: allPrinciples.filter(p => requestData.principleIds.includes(p.id))
RequestedPrinciples(all, req) ==
    LET Includes(p) == \E k \in 1..Len(req.principleIds.ids) : req.principleIds.ids[k] = p.id
    IN SelectSeq(all, Includes)

\* lines 89-97: the QuizQuestion built from a generated question
QuizQuestion(q, level) ==
    [principleId |-> q.principleId, question |-> q.question, options |-> q.options,
     correctAnswer |-> q.correctAnswer, explanation |-> q.explanation,
     difficulty |-> level, qualityScore |-> 8]

QuizQuestions(list, level) == [i \in 1..Len(list) |-> QuizQuestion(list[i], level)]

\* a handler that answers a failed generation with no question
AfterGenerateNoFallback(o, requested) ==
    IF o.kind = "throw"
    THEN { [fallbackCalls |-> <<>>, questions |-> <<>>] }
    ELSE { [fallbackCalls |-> <<>>, questions |-> o.value] }

\* a handler that also falls back when the generation returns no question
AfterGenerateFallbackOnEmpty(o, requested) ==
    IF o.kind = "throw" \/ o.value = <<>>
    THEN { [fallbackCalls |-> <<requested>>, questions |-> list] :
             list \in MapFallback(requested) }
    ELSE { [fallbackCalls |-> <<>>, questions |-> o.value] }

\* lines 76-86: generatedQuestions after the try and its catch, with the
\* calls of generateFallbackQuestions made
AfterGenerate(o, requested) ==
    IF o.kind = "throw"
    THEN { [fallbackCalls |-> <<requested>>, questions |-> list] :
             list \in MapFallback(requested) }
    ELSE { [fallbackCalls |-> <<>>, questions |-> o.value] }

\* the completions the service resolves the handler's call with: no choice,
\* a text that is no JSON, JSON without `questions`, an array with a null
\* element, an empty array, a candidate that fails the filter and one that
\* passes it
HandlerCompletions ==
    { Resolved(<<>>),
      Resolved(<<Choice(BrokenText)>>),
      Resolved(<<Choice(JsonText(JsonValue("object", NotArray(Undefined))))>>),
      QuestionsText(<<Primitive("null")>>),
      QuestionsText(<<>>),
      QuestionsText(<<Candidate(Q1, ABCD, Num(4), P1, Expl)>>),
      QuestionsText(<<Q1AtZero>>) }

\* lines 12-57: the request is validated up to the await of getPrinciples
handlerReceives ==
    /\ handlerPc = "idle"
    /\ \E req \in Requests :
          /\ request' = req
          /\ response' = EarlyResponse(req)
          /\ handlerPc' = IF EarlyResponse(req) = NoResponse THEN "principles" ELSE "done"
    /\ UNCHANGED <<generateArgs, generated, fallbackArgs, persisted>>
    /\ UNCHANGED <<genVars, shuffleVars, fallbackVars, costVars, batchVars, heapVars>>

\* getPrinciples rejects: the catch of lines 111-119 answers 500
getPrinciplesRejects ==
    /\ handlerPc = "principles"
    /\ response' = Response(500, FALSE, "GENERATION_ERROR", Undefined)
    /\ handlerPc' = "done"
    /\ UNCHANGED <<request, generateArgs, generated, fallbackArgs, persisted>>
    /\ UNCHANGED <<genVars, shuffleVars, fallbackVars, costVars, batchVars, heapVars>>

\* lines 57-100 after getPrinciples resolves: 404, or the call of
\* generateQuestions; without a credential that call throws at line 49 and
\* the handler runs on to the call of createQuestions
getPrinciplesResolves ==
    /\ handlerPc = "principles"
    /\ LET requested == RequestedPrinciples(StoredPrinciples, request)
       IN IF Len(requested) = 0
          THEN /\ response' = Response(404, FALSE, "PRINCIPLES_NOT_FOUND", Undefined)
               /\ handlerPc' = "done"
               /\ UNCHANGED <<generateArgs, generated, fallbackArgs, persisted>>
          ELSE /\ generateArgs' =
                      [called |-> TRUE, principles |-> requested,
                       questionsPerPrinciple |-> QuestionsPerPrincipleOf(request),
                       difficulty |-> DifficultyOf(request)]
               /\ IF Falsy(apiKey)
                  THEN /\ generated' = Thrown(ConfigError, ConfigError)
                       /\ \E next \in AfterGenerate(Thrown(ConfigError, ConfigError), requested) :
                             /\ fallbackArgs' = next.fallbackCalls
                             /\ persisted' =
                                   <<QuizQuestions(next.questions, DifficultyOf(request))>>
                       /\ handlerPc' = "persisting"
                  ELSE /\ handlerPc' = "generating"
                       /\ UNCHANGED <<generated, fallbackArgs, persisted>>
               /\ UNCHANGED response
    /\ UNCHANGED request
    /\ UNCHANGED <<genVars, shuffleVars, fallbackVars, costVars, batchVars, heapVars>>

\* lines 77-100: the awaited generateQuestions call settles; the handler
\* runs on to the call of createQuestions
generateQuestionsSettles ==
    /\ handlerPc = "generating"
    /\ \E o \in { Catch(Thrown(reason, reason)) : reason \in TransportErrors }
                \cup UNION { { Catch(x) : x \in AfterCompletion(c) } : c \in HandlerCompletions } :
          /\ generated' = o
          /\ \E next \in AfterGenerate(o, generateArgs.principles) :
                /\ fallbackArgs' = next.fallbackCalls
                /\ persisted' = <<QuizQuestions(next.questions, generateArgs.difficulty)>>
    /\ handlerPc' = "persisting"
    /\ UNCHANGED <<request, generateArgs, response>>
    /\ UNCHANGED <<genVars, shuffleVars, fallbackVars, costVars, batchVars, heapVars>>

\* lines 100-109: createQuestions resolves with the rows it inserted
createQuestionsResolves ==
    /\ handlerPc = "persisting"
    /\ response' = Response(200, TRUE, "", Num(Len(persisted[1])))
    /\ handlerPc' = "done"
    /\ UNCHANGED <<request, generateArgs, generated, fallbackArgs, persisted>>
    /\ UNCHANGED <<genVars, shuffleVars, fallbackVars, costVars, batchVars, heapVars>>

\* createQuestions rejects: the catch of lines 111-119 answers 500
createQuestionsRejects ==
    /\ handlerPc = "persisting"
    /\ response' = Response(500, FALSE, "GENERATION_ERROR", Undefined)
    /\ handlerPc' = "done"
    /\ UNCHANGED <<request, generateArgs, generated, fallbackArgs, persisted>>
    /\ UNCHANGED <<genVars, shuffleVars, fallbackVars, costVars, batchVars, heapVars>>

NextHandler ==
    \/ handlerReceives
    \/ getPrinciplesRejects
    \/ getPrinciplesResolves
    \/ generateQuestionsSettles
    \/ createQuestionsResolves
    \/ createQuestionsRejects

SpecHandler == Init /\ [][NextHandler]_vars

HandlerDone == handlerPc = "done"
GenerateFailed == generated.kind = "throw"

\* the fatal errors of generateQuestions by the step that raised them
FatalKinds ==
    { ConfigError, EmptyContentError, SyntaxError, FormatError, TypeError }
        \cup TransportErrors

(* C25: whenever the handler's generateQuestions call fails, with whichever *)
(* fatal error, the handler calls generateFallbackQuestions once, on the    *)
(* requested principles, and gives createQuestions exactly one question per *)
(* requested principle, in their order; the requested principles are the    *)
(* stored principles the request names, and there is at least one.          *)
C25_FallbackAfterFailure ==
    GenerateFailed =>
        /\ generated.raised \in FatalKinds
        /\ generateArgs.called
        /\ Len(generateArgs.principles) >= 1
        /\ \A i \in 1..Len(generateArgs.principles) :
              \E k \in 1..Len(request.principleIds.ids) :
                  request.principleIds.ids[k] = generateArgs.principles[i].id
        /\ fallbackArgs = <<generateArgs.principles>>
        /\ Len(persisted) = 1
        /\ Len(persisted[1]) = Len(generateArgs.principles)
        /\ \A i \in 1..Len(generateArgs.principles) :
              /\ persisted[1][i].principleId = generateArgs.principles[i].id
              /\ Len(persisted[1][i].options.items) = 4

\* a request for two principles whose generation failed on a text that is no
\* JSON: two fallback questions were stored and the handler answered 200
C25_Witness ==
    /\ HandlerDone
    /\ generated.raised = SyntaxError
    /\ Len(generateArgs.principles) = 2
    /\ Len(persisted[1]) = 2
    /\ response.status = 200
    /\ response.totalGenerated = Num(2)

(* C29: the handler calls generateFallbackQuestions exactly when its        *)
(* generateQuestions call has thrown, and then once; when that call returns *)
(* no question the handler gives createQuestions the empty list and, once   *)
(* createQuestions resolves, answers 200 with totalGenerated 0; when        *)
(* createQuestions rejects the handler answers 500 and has made no further  *)
(* call of generateFallbackQuestions.                                       *)
C29_FallbackOnlyOnThrow ==
    /\ Len(fallbackArgs) = (IF GenerateFailed THEN 1 ELSE 0)
    /\ generated = Returned(<<>>) =>
          /\ fallbackArgs = <<>>
          /\ persisted = << <<>> >>
          /\ HandlerDone =>
                \/ /\ response.status = 200
                   /\ response.success
                   /\ response.totalGenerated = Num(0)
                \/ response = Response(500, FALSE, "GENERATION_ERROR", Undefined)
    /\ (HandlerDone /\ persisted # <<>>) => response.status \in {200, 500}
    /\ (HandlerDone /\ response.status = 200 /\ request.method = "POST") =>
          /\ Len(persisted) = 1
          /\ response.totalGenerated = Num(Len(persisted[1]))

\* a generation that returned no question, answered 200 with totalGenerated 0
C29_Witness ==
    /\ HandlerDone
    /\ generated = Returned(<<>>)
    /\ fallbackArgs = <<>>
    /\ response.status = 200
    /\ response.totalGenerated = Num(0)

\* the statuses of the requests the validation rejects
RejectedStatuses == {400, 404, 405}

(* C30: a request the handler rejects with 405, 400 or 404 leads to no call *)
(* of generateQuestions, of generateFallbackQuestions or of                 *)
(* createQuestions; the method, the principleIds, a numeric                 *)
(* questionsPerPrinciple, the difficulty and the stored ids decide the      *)
(* rejection; and generateQuestions is called with at least one principle,  *)
(* a number between 1 and 10 as questionsPerPrinciple, 5 when the request   *)
(* has none or 0, and easy, medium or hard as difficulty.                   *)
C30_ValidationGuardsGeneration ==
    /\ (HandlerDone /\ response.status \in RejectedStatuses) =>
          /\ ~generateArgs.called
          /\ generated = Pending
          /\ fallbackArgs = <<>>
          /\ persisted = <<>>
    /\ HandlerDone =>
          /\ request.method \notin {"POST", "OPTIONS"} => response.status = 405
          /\ request.method = "POST" =>
                /\ (request.principleIds.t = "undefined"
                        \/ request.principleIds.ids = <<>>) => response.status = 400
                /\ (request.questionsPerPrinciple.t = "number"
                        /\ request.questionsPerPrinciple # Num(0)
                        /\ (request.questionsPerPrinciple.n < 1
                                \/ request.questionsPerPrinciple.n > 10)) =>
                      response.status = 400
                /\ (request.difficulty.t = "string" /\ request.difficulty.s # <<>>
                        /\ request.difficulty.s \notin {<<"easy">>, <<"medium">>, <<"hard">>}) =>
                      response.status = 400
    /\ generateArgs.called =>
          /\ Len(generateArgs.principles) >= 1
          /\ generateArgs.questionsPerPrinciple.t = "number"
          /\ generateArgs.questionsPerPrinciple.n >= 1
          /\ \/ generateArgs.questionsPerPrinciple.n < 10
             \/ generateArgs.questionsPerPrinciple = Num(10)
          /\ (request.questionsPerPrinciple \in {Undefined, Num(0)}) =>
                generateArgs.questionsPerPrinciple = Num(5)
          /\ generateArgs.difficulty.t = "string"
          /\ generateArgs.difficulty.s \in {<<"easy">>, <<"medium">>, <<"hard">>}

====
